---- MODULE Spec2Model ----
(***************************************************************************)
(* AirSage Pro (app/app.py): a Streamlit page that loads a regression      *)
(* model once, collects eleven readings and an alert threshold, and on     *)
(* "Run Analysis" assembles the model's input, predicts, and shows a gauge *)
(* and a severity message.                                                 *)
(*                                                                         *)
(* Streamlit runs the whole script again on every interaction, so every    *)
(* action below is one run of the script: the cached model load, the       *)
(* feature list, the widgets, and (when the button was pressed) the        *)
(* analysis branch.                                                        *)
(*                                                                         *)
(* CO concentrations (predictions, thresholds, gauge ranges) are integers  *)
(* in thousandths of a mg/m3: 4.4 is 4400, 9.4 is 9400, 15.0 is 15000.     *)
(* The eleven readings are integers in their own units.                    *)
(***************************************************************************)
EXTENDS Integers, Sequences, FiniteSets

VARIABLES
    artifact,         \* what models/air_quality_model.pkl holds on disk now
    cache,            \* st.cache_resource's entry for load_model
    model,            \* the global `model`
    features,         \* the global `features`
    loads,            \* how many times joblib.load has been called
    current_time,     \* the clock reading the temporal widgets default to
    alert_threshold,  \* the sidebar slider
    widgets,          \* the eleven input widgets, by the variable each is read into
    page              \* what the last run of the script displayed

vars == <<artifact, cache, model, features, loads, current_time,
          alert_threshold, widgets, page>>

-----------------------------------------------------------------------------
(* Bounds of the model *)

\* how many input widgets may differ from their default at once
MaxEdits == 1
\* predictions are taken within this many thousandths of every boundary
PredSpread == 1

-----------------------------------------------------------------------------
(* Constants of the program *)

DEFAULT_FEATURES ==
    <<"PT08.S1(CO)", "NMHC(GT)", "NOx(GT)", "NO2(GT)",
      "PT08.S3(NOx)", "T", "RH", "AH", "Hour", "Month", "DayOfWeek">>

\* the keys of input_data, in the order the dict literal lists them
InputKeys ==
    <<"PT08.S1(CO)", "NMHC(GT)", "NOx(GT)", "NO2(GT)",
      "PT08.S3(NOx)", "T", "RH", "AH", "Hour", "Month", "DayOfWeek">>

Range(s) == {s[i] : i \in 1..Len(s)}

InputNames == Range(InputKeys)

\* create_gauge's defaults
GaugeMinVal == 0
GaugeMaxVal == 15000
GaugeDefaultThreshold == 9400
\* the end of the lightgreen step and the start of the orange one
GaugeLow == 4400

\* st.slider("Alert Threshold (mg/m3)", 4.4, 15.0, 9.4)
SliderMin == 4400
SliderMax == 15000
SliderDefault == 9400

\* the caution branch compared against 4.0 where the gauge bands use 4.4
CautionLevelLower == GaugeLow - 400

\* elif prediction > 4.4
CautionLevel == 4400

-----------------------------------------------------------------------------
(* The model file and the cached load *)

\* model is None
None == [loaded |-> FALSE, hasNames |-> FALSE, feature_names_in_ |-> <<>>]

Estimator(hasNames, names) ==
    [loaded |-> TRUE, hasNames |-> hasNames, feature_names_in_ |-> names]

\* The estimators the file may hold: one without feature_names_in_, one
\* trained on a reordered subset of the inputs, one trained on a column the
\* page has no widget for.
Estimators ==
    { Estimator(FALSE, <<>>),
      Estimator(TRUE, <<"T", "PT08.S1(CO)", "Hour">>),
      Estimator(TRUE, <<"NOx(GT)", "C6H6(GT)", "T">>) }

\* a missing or malformed file: joblib.load raises
Unreadable == [readable |-> FALSE, estimator |-> None]

Artifacts == {Unreadable} \cup {[readable |-> TRUE, estimator |-> e] : e \in Estimators}

EmptyCache == [filled |-> FALSE, value |-> None]

\* load_model without the cache decorator: every run of the script reads
\* the file again
load_modelUncached(c, a) ==
    LET m == IF a.readable THEN a.estimator ELSE None
    IN  [cache |-> [filled |-> TRUE, value |-> m], value |-> m, joblibLoads |-> 1]

\* load_model under @st.cache_resource: the body runs only on a cache miss,
\* and what it returns (None after a failed load too) is what is cached.
load_model(c, a) ==
    IF c.filled
    THEN [cache |-> c, value |-> c.value, joblibLoads |-> 0]
    ELSE LET m == IF a.readable THEN a.estimator ELSE None
         IN  [cache |-> [filled |-> TRUE, value |-> m], value |-> m, joblibLoads |-> 1]

\* features = getattr(model, 'feature_names_in_', DEFAULT_FEATURES) if model else DEFAULT_FEATURES
ExpectedFeatures(m) ==
    IF m.loaded
    THEN (IF m.hasNames THEN m.feature_names_in_ ELSE DEFAULT_FEATURES)
    ELSE DEFAULT_FEATURES

-----------------------------------------------------------------------------
(* The widgets *)

\* the clock readings datetime.now() may return
Clocks == {[hour |-> 8, month |-> 6]}

\* st.selectbox('Month', range(1,13), current_time.month-1): the option at
\* that (0-based) index
MonthOptions == [i \in 1..12 |-> i]

\* the value= / index= arguments of the eleven input widgets
Defaults(now) ==
    [pt08_s1_co |-> 1000, nmhc_gt |-> 200, nox_gt |-> 150, no2_gt |-> 50,
     pt08_s3_nox |-> 800, temperature |-> 20, humidity |-> 50,
     abs_humidity |-> 1, hour |-> now.hour,
     month |-> MonthOptions[(now.month - 1) + 1], day_of_week |-> 0]

WidgetNames == DOMAIN Defaults([hour |-> 0, month |-> 1])

\* the value a user moves each widget to: an end of each slider and select
\* box, another reading for each number input
Choices ==
    [pt08_s1_co |-> {1001}, nmhc_gt |-> {-200}, nox_gt |-> {151}, no2_gt |-> {0},
     pt08_s3_nox |-> {799}, temperature |-> {-20}, humidity |-> {100},
     abs_humidity |-> {2}, hour |-> {23}, month |-> {12},
     day_of_week |-> {6}]

Edited(w, now) == {n \in WidgetNames : w[n] # Defaults(now)[n]}

\* the positions of the alert slider the model takes: both ends, one 0.01
\* step above the lower end, and the default
Thresholds == {SliderMin, SliderMin + 10, SliderDefault, SliderMax}

-----------------------------------------------------------------------------
(* The model's predict *)

\* what model.predict(input_df)[0] may do: raise, or return any number;
\* the numbers taken lie around every boundary and far outside the gauge
Boundaries == {GaugeMinVal, GaugeLow, GaugeMaxVal} \cup Thresholds

PredictionValues ==
    {b + d : b \in Boundaries, d \in (0 - PredSpread)..PredSpread}
        \cup {-5000, 20000}

Raised == [ok |-> FALSE, value |-> 0]

PredictOutcomes == {Raised} \cup {[ok |-> TRUE, value |-> p] : p \in PredictionValues}

\* model.predict: None has no predict, so the call raises
predict(m, outcome) == IF m.loaded THEN outcome ELSE Raised

-----------------------------------------------------------------------------
(* create_gauge *)

\* create_gauge keeping the needle within the axis
create_gaugeClamped(value, min_val, max_val, threshold) ==
    [mode |-> "gauge+number",
     value |-> IF value < min_val THEN min_val
               ELSE IF value > max_val THEN max_val ELSE value,
     axis |-> <<min_val, max_val>>,
     bar |-> "darkblue",
     steps |-> << [range |-> <<min_val, GaugeLow>>, color |-> "lightgreen"],
                  [range |-> <<GaugeLow, threshold>>, color |-> "orange"],
                  [range |-> <<threshold, max_val>>, color |-> "red"] >>,
     threshold |-> [color |-> "black", width |-> 4, value |-> threshold]]

create_gauge(value, min_val, max_val, threshold) ==
    [mode |-> "gauge+number",
     value |-> value,
     axis |-> <<min_val, max_val>>,
     bar |-> "darkblue",
     steps |-> << [range |-> <<min_val, GaugeLow>>, color |-> "lightgreen"],
                  [range |-> <<GaugeLow, threshold>>, color |-> "orange"],
                  [range |-> <<threshold, max_val>>, color |-> "red"] >>,
     threshold |-> [color |-> "black", width |-> 4, value |-> threshold]]

\* the call without threshold=: the gauge falls back on its default 9.4
GaugeForRunDefault(prediction, alert) ==
    create_gauge(prediction, GaugeMinVal, GaugeMaxVal, GaugeDefaultThreshold)

\* create_gauge(prediction, threshold=alert_threshold)
GaugeForRun(prediction, alert) ==
    create_gauge(prediction, GaugeMinVal, GaugeMaxVal, alert)

-----------------------------------------------------------------------------
(* The severity branch *)

Critical == [shown |-> "error", text |-> "Critical Alert: Evacuation recommended!",
             effect |-> "snow"]
Caution  == [shown |-> "warning", text |-> "Caution: Sensitive groups should reduce exposure",
             effect |-> "none"]
Normal   == [shown |-> "success", text |-> "Air Quality Normal",
             effect |-> "balloons"]

\* the alert compared with >= : a prediction at the threshold is critical
SeverityGe(prediction, alert) ==
    IF prediction >= alert THEN Critical
    ELSE IF prediction > CautionLevel THEN Caution
    ELSE Normal

\* the second comparison turned round
SeverityInverted(prediction, alert) ==
    IF prediction > alert THEN Critical
    ELSE IF prediction < CautionLevel THEN Caution
    ELSE Normal

\* if prediction > alert_threshold / elif prediction > 4.4 / else
Severity(prediction, alert) ==
    IF prediction > alert THEN Critical
    ELSE IF prediction > CautionLevel THEN Caution
    ELSE Normal

\* f"{prediction:.2f}": the prediction in hundredths, rounded to nearest
\* (a tie goes to the even hundredth)
Format2f(prediction) ==
    LET q == prediction \div 10
        r == prediction % 10
    IN  IF r < 5 THEN q
        ELSE IF r > 5 THEN q + 1
        ELSE IF q % 2 = 0 THEN q ELSE q + 1

-----------------------------------------------------------------------------
(* The feature assembly *)

\* input_data: one-row columns, in the order of the dict literal, each
\* holding the variable its widget was read into
input_data(w) ==
    << [name |-> "PT08.S1(CO)",  value |-> w.pt08_s1_co],
       [name |-> "NMHC(GT)",     value |-> w.nmhc_gt],
       [name |-> "NOx(GT)",      value |-> w.nox_gt],
       [name |-> "NO2(GT)",      value |-> w.no2_gt],
       [name |-> "PT08.S3(NOx)", value |-> w.pt08_s3_nox],
       [name |-> "T",            value |-> w.temperature],
       [name |-> "RH",           value |-> w.humidity],
       [name |-> "AH",           value |-> w.abs_humidity],
       [name |-> "Hour",         value |-> w.hour],
       [name |-> "Month",        value |-> w.month],
       [name |-> "DayOfWeek",    value |-> w.day_of_week] >>

Columns(df) == [i \in 1..Len(df) |-> df[i].name]
Values(df)  == [i \in 1..Len(df) |-> df[i].value]

\* the column of df called name (df has one)
Column(df, name) ==
    df[CHOOSE i \in 1..Len(df) : df[i].name = name]

\* the names of feats that df has no column for, in feats' order
RECURSIVE NotInIndex(_, _)
NotInIndex(df, feats) ==
    IF feats = <<>> THEN <<>>
    ELSE IF Head(feats) \in Range(Columns(df))
         THEN NotInIndex(df, Tail(feats))
         ELSE <<Head(feats)>> \o NotInIndex(df, Tail(feats))

\* a selection that keeps the frame's own column order
SelectInFrameOrder(df, feats) ==
    LET missing == NotInIndex(df, feats)
    IN  IF missing # <<>>
        THEN [raised |-> TRUE, key_error |-> missing, df |-> <<>>]
        ELSE [raised |-> FALSE, key_error |-> <<>>,
              df |-> SelectSeq(df, LAMBDA col : col.name \in Range(feats))]

\* pd.DataFrame(input_data)[features]: the columns feats names, in feats'
\* order; pandas raises KeyError naming the labels that are no column
Select(df, feats) ==
    LET missing == NotInIndex(df, feats)
    IN  IF missing # <<>>
        THEN [raised |-> TRUE, key_error |-> missing, df |-> <<>>]
        ELSE [raised |-> FALSE, key_error |-> <<>>,
              df |-> [i \in 1..Len(feats) |-> Column(df, feats[i])]]

-----------------------------------------------------------------------------
(* One run of the script *)

\* A page on which the script ran to its end without the button: the
\* sidebar and the Documentation tab list the features, load_model's
\* st.error is shown when the load failed, and nothing else.
Blank(m, feats) ==
    [button        |-> FALSE,
     load_error    |-> ~m.loaded,
     sidebar       |-> feats,
     error         |-> <<>>,   \* st.error texts of the analysis branch
     predict_calls |-> <<>>,   \* the frames handed to model.predict
     prediction    |-> <<>>,   \* the local `prediction`, once assigned
     gauge         |-> <<>>,   \* st.plotly_chart figures
     severity      |-> <<>>,   \* the severity messages
     metric        |-> <<>>,   \* st.metric values
     debug         |-> <<>>,   \* the "Debug Details" expander
     exception     |-> <<>>,   \* an exception no handler of the script caught
     documentation |-> <<feats>>]

\* the analysis without its guard
ModelNeverNone(m) == FALSE

\* if model is None
ModelIsNone(m) == ~m.loaded

\* an except branch that shows the message alone
OnPredictFailedBare(pg, input_df, feats) ==
    [pg EXCEPT !.error = <<"Prediction failed">>]

\* the except branch: st.error and the "Debug Details" expander
OnPredictFailed(pg, input_df, feats) ==
    [pg EXCEPT !.error = <<"Prediction failed">>,
               !.debug = << [input_features |-> Columns(input_df),
                             input_values   |-> Values(input_df),
                             model_features |-> feats] >>]

\* the try branch after predict returned
OnPredicted(pg, prediction, alert) ==
    [pg EXCEPT !.prediction = <<prediction>>,
               !.gauge = <<GaugeForRun(prediction, alert)>>,
               !.severity = <<Severity(prediction, alert)>>,
               !.metric = << [label |-> "Predicted CO Concentration",
                              hundredths |-> Format2f(prediction)] >>]

\* the body of `if st.button("Run Analysis", ...)`
Analysis(pg, m, feats, w, alert, outcome) ==
    IF ModelIsNone(m)
    THEN [pg EXCEPT !.error = <<"Model not loaded - cannot make predictions">>]
    ELSE LET sel == Select(input_data(w), feats)
         IN  IF sel.raised
             \* line 119 is outside the try: the script stops there, and
             \* the Documentation tab is not reached
             THEN [pg EXCEPT !.exception = <<[type |-> "KeyError", keys |-> sel.key_error]>>,
                             !.documentation = <<>>]
             ELSE LET got   == predict(m, outcome)
                      tried == [pg EXCEPT !.predict_calls = <<sel.df>>]
                  IN  IF got.ok
                      THEN OnPredicted(tried, got.value, alert)
                      ELSE OnPredictFailed(tried, sel.df, feats)

Script(m, feats, w, alert, button, outcome) ==
    IF button
    THEN Analysis([Blank(m, feats) EXCEPT !.button = TRUE], m, feats, w, alert, outcome)
    ELSE Blank(m, feats)

\* every interaction runs the script from the top: load_model() through
\* the cache, features from the model, then the page
Rerun(w, alert, button, outcome) ==
    LET got == load_model(cache, artifact)
    IN  /\ cache' = got.cache
        /\ model' = got.value
        /\ features' = ExpectedFeatures(got.value)
        /\ loads' = loads + got.joblibLoads
        /\ page' = Script(got.value, ExpectedFeatures(got.value), w, alert, button, outcome)

-----------------------------------------------------------------------------
(* The state after the first run of the script, and the interactions *)

Init ==
    /\ artifact \in Artifacts
    /\ current_time \in Clocks
    /\ alert_threshold = SliderDefault
    /\ widgets = Defaults(current_time)
    /\ LET got == load_model(EmptyCache, artifact)
       IN  /\ cache = got.cache
           /\ model = got.value
           /\ features = ExpectedFeatures(got.value)
           /\ loads = got.joblibLoads
           /\ page = Script(got.value, ExpectedFeatures(got.value),
                            widgets, alert_threshold, FALSE, Raised)

\* the user moves the alert slider
SetThreshold ==
    \E t \in Thresholds \ {alert_threshold} :
        /\ alert_threshold' = t
        /\ Rerun(widgets, t, FALSE, Raised)
        /\ UNCHANGED <<artifact, current_time, widgets>>

\* the user changes one of the eleven inputs
SetInput ==
    \E n \in WidgetNames :
        \E v \in (Choices[n] \cup {Defaults(current_time)[n]}) \ {widgets[n]} :
            LET w == [widgets EXCEPT ![n] = v]
            IN  /\ Cardinality(Edited(w, current_time)) <= MaxEdits
                /\ widgets' = w
                /\ Rerun(w, alert_threshold, FALSE, Raised)
                /\ UNCHANGED <<artifact, current_time, alert_threshold>>

\* the user presses "Run Analysis"
RunAnalysis ==
    \E outcome \in PredictOutcomes :
        /\ Rerun(widgets, alert_threshold, TRUE, outcome)
        /\ UNCHANGED <<artifact, current_time, alert_threshold, widgets>>

\* the model file is replaced, repaired or damaged while the app runs
ArtifactChange ==
    /\ artifact' \in Artifacts \ {artifact}
    /\ UNCHANGED <<cache, model, features, loads, current_time,
                   alert_threshold, widgets, page>>

Next == SetThreshold \/ SetInput \/ RunAnalysis \/ ArtifactChange

Spec == Init /\ [][Next]_vars

-----------------------------------------------------------------------------
(* What the claims speak of *)

\* a run of the analysis whose predict returned
Predicted == page.prediction # <<>>

\* a run of the analysis whose predict raised
PredictFailed == page.predict_calls # <<>> /\ page.prediction = <<>>

ThresholdInRange == 4400 <= alert_threshold /\ alert_threshold <= 15000

\* Safe < Moderate < Hazardous
Rank(s) == CASE s = Normal -> 0 [] s = Caution -> 1 [] s = Critical -> 2

InBand(p, step) == step.range[1] <= p /\ p <= step.range[2]

\* the reading the page holds for a raw input field
RawValue(name) ==
    CASE name = "PT08.S1(CO)"  -> widgets.pt08_s1_co
      [] name = "NMHC(GT)"     -> widgets.nmhc_gt
      [] name = "NOx(GT)"      -> widgets.nox_gt
      [] name = "NO2(GT)"      -> widgets.no2_gt
      [] name = "PT08.S3(NOx)" -> widgets.pt08_s3_nox
      [] name = "T"            -> widgets.temperature
      [] name = "RH"           -> widgets.humidity
      [] name = "AH"           -> widgets.abs_humidity
      [] name = "Hour"         -> widgets.hour
      [] name = "Month"        -> widgets.month
      [] name = "DayOfWeek"    -> widgets.day_of_week

\* a successful run is possible from here
CanRunAndSucceed == ENABLED (RunAnalysis /\ page'.prediction # <<>>)

-----------------------------------------------------------------------------
C2_DegradedMode ==
    /\ [](~model.loaded =>
            /\ loads = 1
            /\ page.predict_calls = <<>>
            /\ page.prediction = <<>>
            /\ page.gauge = <<>>
            /\ page.severity = <<>>
            /\ page.metric = <<>>
            /\ page.exception = <<>>
            /\ page.documentation # <<>>
            /\ page.button =>
                 page.error = <<"Model not loaded - cannot make predictions">>
            /\ ENABLED RunAnalysis)
    /\ [][~model.loaded => ~model'.loaded]_vars

\* the file has been repaired since the failed load, and Run Analysis still
\* ends in the notice
C2_Witness ==
    /\ ~model.loaded
    /\ artifact.readable
    /\ page.button
    /\ page.error = <<"Model not loaded - cannot make predictions">>

\* C3: with an expected feature that is no raw input field, Run Analysis
\* ends in a displayed message naming the field, with no exception escaping
\* the script.
C3_MissingFeatureCaught ==
    (page.button /\ model.loaded /\ ~(Range(features) \subseteq Range(DEFAULT_FEATURES))) =>
        /\ page.exception = <<>>
        /\ page.error # <<>>
        /\ page.documentation # <<>>

\* C4: when every expected name is a raw input field, the frame handed to
\* predict has exactly the expected names, in order, each with that field's
\* reading; nothing is raised; and a second run on the same inputs hands
\* over the same frame.
C4_Assembled ==
    /\ []((page.button /\ model.loaded /\ Range(features) \subseteq Range(DEFAULT_FEATURES)) =>
            /\ page.exception = <<>>
            /\ Len(page.predict_calls) = 1
            /\ LET df == page.predict_calls[1]
               IN  /\ Columns(df) = features
                   /\ \A i \in 1..Len(df) : df[i].value = RawValue(features[i]))
    /\ [][(page.predict_calls # <<>> /\ page'.predict_calls # <<>> /\ widgets' = widgets)
            => page'.predict_calls = page.predict_calls]_vars

\* a model trained on T, PT08.S1(CO), Hour, with the temperature moved
C4_Witness ==
    /\ features = <<"T", "PT08.S1(CO)", "Hour">>
    /\ widgets.temperature = -20
    /\ page.predict_calls =
         << << [name |-> "T", value |-> -20],
               [name |-> "PT08.S1(CO)", value |-> 1000],
               [name |-> "Hour", value |-> 8] >> >>

\* C5: the gauge of a run has axis [0, 15], the three bands [0, 4.4]
\* lightgreen, [4.4, t] orange, [t, 15] red, in that order, and its marker
\* at t, the alert threshold the user chose.
C5_GaugeBands ==
    /\ ThresholdInRange
    /\ page.gauge # <<>> =>
         LET g == page.gauge[1]
             t == alert_threshold
         IN  /\ Len(page.gauge) = 1
             /\ g.axis = <<0, 15000>>
             /\ g.steps = << [range |-> <<0, 4400>>, color |-> "lightgreen"],
                             [range |-> <<4400, t>>, color |-> "orange"],
                             [range |-> <<t, 15000>>, color |-> "red"] >>
             /\ g.threshold.value = t

\* a gauge drawn with the slider moved to 15.0
C5_Witness ==
    /\ alert_threshold = 15000
    /\ page.gauge # <<>>
    /\ page.gauge[1].threshold.value = 15000

\* C6 as stated: the needle is the prediction, and the labelled metric
\* shows that same value.
C6_MetricShowsExactValue ==
    Predicted =>
        /\ page.gauge[1].value = page.prediction[1]
        /\ 10 * page.metric[1].hundredths = page.prediction[1]

\* C6 as amended: the needle is the prediction unmodified, also below 0 and
\* above 15; the severity is decided on that value; the labelled metric
\* shows it rounded to two decimals (to the nearest hundredth), unclamped.
C6_NeedleAndMetric ==
    Predicted =>
        LET p == page.prediction[1]
            h == page.metric[1].hundredths
        IN  /\ Len(page.gauge) = 1
            /\ page.gauge[1].value = p
            /\ page.severity[1] = Critical <=> p > alert_threshold
            /\ page.severity[1] = Normal <=> p <= 4400
            /\ Len(page.metric) = 1
            /\ 10 * h - p \in -5..5

\* a prediction above the gauge's range
C6_Witness ==
    /\ page.prediction = <<20000>>
    /\ page.gauge[1].value = 20000
    /\ page.metric[1].hundredths = 2000

\* C7: when predict raises, the run shows the prediction-failed message and
\* the attempted frame's keys and values, no gauge, no severity, no metric;
\* nothing escapes the script, and a next run can be made and can succeed.
C7_PredictFailureCaught ==
    PredictFailed =>
        /\ page.error = <<"Prediction failed">>
        /\ Len(page.debug) = 1
        /\ page.debug[1].input_features = Columns(page.predict_calls[1])
        /\ page.debug[1].input_values = Values(page.predict_calls[1])
        /\ page.gauge = <<>>
        /\ page.severity = <<>>
        /\ page.metric = <<>>
        /\ page.exception = <<>>
        /\ page.documentation # <<>>
        /\ CanRunAndSucceed

C7_Witness ==
    /\ PredictFailed
    /\ page.error = <<"Prediction failed">>
    /\ page.debug[1].input_features = <<"T", "PT08.S1(CO)", "Hour">>
    /\ page.debug[1].input_values = <<20, 1001, 8>>

\* C8: the expected feature list is the model's own list when a model is
\* loaded and has one, the eleven default names otherwise, and no
\* interaction changes it (nor the model it came from).
C8_FeaturesFixed ==
    /\ [](/\ features = IF model.loaded /\ model.hasNames
                        THEN model.feature_names_in_
                        ELSE DEFAULT_FEATURES
          /\ Len(DEFAULT_FEATURES) = 11)
    /\ [][features' = features /\ model' = model]_vars

\* the file now holds another estimator, a run has been made, and the list
\* is still the one of the estimator loaded first
C8_Witness ==
    /\ features = <<"T", "PT08.S1(CO)", "Hour">>
    /\ artifact.readable
    /\ artifact.estimator.feature_names_in_ # features
    /\ Predicted

\* C9: for the threshold of a run, no smaller prediction is more severe
\* than the one shown and no larger one is less severe.
C9_Monotonic ==
    Predicted =>
        LET p == page.prediction[1]
            t == alert_threshold
        IN  \A q \in PredictionValues :
              /\ q <= p => Rank(Severity(q, t)) <= Rank(page.severity[1])
              /\ q >= p => Rank(Severity(q, t)) >= Rank(page.severity[1])

\* a caution shown, with predictions on both sides that are normal and
\* critical
C9_Witness ==
    /\ Predicted
    /\ page.severity = <<Caution>>
    /\ \E q1, q2 \in PredictionValues :
         /\ q1 < page.prediction[1] /\ Severity(q1, alert_threshold) = Normal
         /\ q2 > page.prediction[1] /\ Severity(q2, alert_threshold) = Critical

\* C10: for a prediction within [0, 15] that is neither 4.4 nor t, the
\* message shown is the one of the gauge band the prediction lies in.
C10_MessageMatchesBand ==
    (Predicted /\ page.prediction[1] \in 0..15000
               /\ page.prediction[1] \notin {4400, alert_threshold}) =>
        LET p == page.prediction[1]
            g == page.gauge[1]
            s == page.severity[1]
        IN  /\ g.steps[1].color = "lightgreen" /\ (s = Normal   <=> InBand(p, g.steps[1]))
            /\ g.steps[2].color = "orange"     /\ (s = Caution  <=> InBand(p, g.steps[2]))
            /\ g.steps[3].color = "red"        /\ (s = Critical <=> InBand(p, g.steps[3]))

\* just above 4.4: the first prediction of the orange band
C10_Witness ==
    /\ page.prediction = <<4401>>
    /\ alert_threshold = 9400
    /\ page.severity = <<Caution>>
    /\ InBand(4401, page.gauge[1].steps[2])

====
